---------------------------- MODULE Spec2Model ----------------------------
(***************************************************************************)
(* verify-device-capacity (src/main.rs): write a keyed pseudorandom stream *)
(* to a block device until it reports out-of-space, then read the device   *)
(* back and compare it with the same stream.                               *)
(*                                                                         *)
(* The model follows _main, get_seed, write_device and read_device step by *)
(* step.  The environment (device, operator, terminal) is nondeterministic.*)
(* Bytes are abstracted to two values: the engines only copy bytes and     *)
(* compare them for equality.                                              *)
(***************************************************************************)
EXTENDS Integers, Sequences, FiniteSets, TLC

(* ------------------------------ bounds -------------------------------- *)
\* Largest real capacity (bytes the device stores before out-of-space/EOF)
\* and largest capacity the size query may report.
MaxCap == 6
\* Block sizes are WordBytes * (1..MaxBlockWords): st_blksize is a multiple
\* of the generator's word size on every block device.
MaxBlockWords == 2

\* The engines only copy bytes and compare them for equality: two byte values.
Bytes == {0, 1}
\* Stand-ins for the 32-byte seed values.
Seeds == {0, 1}

(* --------------------------- keyed stream ----------------------------- *)
\* ChaCha12Rng is a BlockRng over u32 words: fill_bytes consumes whole words
\* and discards the unused tail of the last word of each call.
WordBytes == 4

\* Stand-in for the ChaCha12 key stream: byte at logical position pos of the
\* stream keyed by seed.  Deterministic in (seed, pos).
KeyStream(seed, pos) == ((pos * pos + seed * (pos + 1)) \div 3) % 2

\* ChaCha12Rng::from_seed: a generator is [seed, w], w = words consumed.
from_seed(seed) == [seed |-> seed, w |-> 0]

\* Number of u32 words one fill of len bytes consumes.
WordsConsumed(len) == (len + WordBytes - 1) \div WordBytes

\* rng.try_fill_bytes(&mut b[..len]): the bytes produced ...
FillBytes(rng, len) ==
    [i \in 1..len |-> KeyStream(rng.seed, WordBytes * rng.w + (i - 1))]

\* ... and the generator afterwards.
FillAdvance(rng, len) == [rng EXCEPT !.w = rng.w + WordsConsumed(len)]

(* ------------------------------ helpers ------------------------------- *)
Min(a, b) == IF a <= b THEN a ELSE b

\* b[..len] <- chunk, the rest of the buffer keeps its old bytes.
Overlay(b, chunk) ==
    [i \in 1..Len(b) |-> IF i <= Len(chunk) THEN chunk[i] ELSE b[i]]

\* The device stores chunk at byte offset pos.
Store(d, pos, chunk) ==
    [i \in 1..Len(d) |->
        IF i > pos /\ i <= pos + Len(chunk) THEN chunk[i - pos] ELSE d[i]]

\* &s[n..]
DropFirst(s, n) == SubSeq(s, n + 1, Len(s))

\* All byte sequences of length 0..n.
RECURSIVE SeqsUpTo(_)
SeqsUpTo(n) ==
    IF n = 0 THEN {<<>>}
    ELSE LET prev == SeqsUpTo(n - 1)
         IN prev \cup {Append(s, b) : s \in {t \in prev : Len(t) = n - 1}, b \in Bytes}

BlockSizes == {WordBytes * k : k \in 1..MaxBlockWords}

Zeros(n) == [i \in 1..n |-> 0]

(* ------------------------ operator confirmation ------------------------ *)
Whitespace == {" ", "\n"}

\* Lines the operator may type at the prompt.
Responses ==
    { <<"Y", "\n">>, <<" ", "y", " ", "\n">>,
      <<"n", "\n">>, <<"\n">>, <<>>, <<"y", "e", "s", "\n">>,
      <<"y", " ", "y", "\n">> }

\* str::trim
RECURSIVE trim_start(_)
trim_start(s) ==
    IF s # <<>> /\ Head(s) \in Whitespace THEN trim_start(Tail(s)) ELSE s

RECURSIVE trim_end(_)
trim_end(s) ==
    IF s # <<>> /\ s[Len(s)] \in Whitespace
    THEN trim_end(SubSeq(s, 1, Len(s) - 1)) ELSE s

trim(s) == trim_end(trim_start(s))

\* Mutant of Accepted: only the first character of the trimmed answer counts.
Accepted_Prefix(response) ==
    trim(response) # <<>> /\ Head(trim(response)) \in {"y", "Y"}

\* response != "y" && response != "Y"  (negated)
Accepted(response) == trim(response) = <<"y">> \/ trim(response) = <<"Y">>

(* --------------------------- seed resolver ----------------------------- *)
\* "--raw-seed ... expected 64 characters" and the [0u8; 32] it decodes to.
RawSeedLen == 64
SeedLen == 32

HexLower ==
    <<"0", "1", "2", "3", "4", "5", "6", "7", "8", "9",
      "a", "b", "c", "d", "e", "f">>
HexUpper ==
    <<"0", "1", "2", "3", "4", "5", "6", "7", "8", "9",
      "A", "B", "C", "D", "E", "F">>

\* hex's val(): the value of a hexadecimal digit of either case, -1 for any
\* other character.
HexVal(c) ==
    IF \E i \in 1..16 : HexLower[i] = c
    THEN (CHOOSE i \in 1..16 : HexLower[i] = c) - 1
    ELSE IF \E i \in 1..16 : HexUpper[i] = c
    THEN (CHOOSE i \in 1..16 : HexUpper[i] = c) - 1
    ELSE -1

\* hex::decode_to_slice(data, &mut [0u8; n])
decode_to_slice(data, n) ==
    IF Len(data) % 2 # 0 THEN [ok |-> FALSE, bytes |-> <<>>]
    ELSE IF Len(data) \div 2 # n THEN [ok |-> FALSE, bytes |-> <<>>]
    ELSE IF \E i \in 1..Len(data) : HexVal(data[i]) = -1
    THEN [ok |-> FALSE, bytes |-> <<>>]
    ELSE [ok |-> TRUE,
          bytes |-> [i \in 1..n |->
                        16 * HexVal(data[2 * i - 1]) + HexVal(data[2 * i])]]

\* hex::encode: two lower-case digits per byte.
encode(bytes) ==
    [i \in 1..(2 * Len(bytes)) |->
        IF i % 2 = 1 THEN HexLower[(bytes[(i + 1) \div 2] \div 16) + 1]
        ELSE HexLower[(bytes[i \div 2] % 16) + 1]]

\* Stand-in for Sha256::digest: 32 bytes, a function of the passphrase.
Sha256(p) == [i \in 1..SeedLen |-> (Len(p) + i) % 256]

\* rand::random(): the seeds a random draw may give (stand-ins).
RandomSeeds == {[i \in 1..SeedLen |-> k] : k \in Seeds}

\* The stream key (in Seeds) that stands for a 32-byte seed.
SeedKey(seed) == seed[1] % 2

\* Option<String>: None is <<>>, Some(s) is <<s>>.
None == <<>>
Some(s) == <<s>>

Rep(c, n) == [i \in 1..n |-> c]
With(s, p, d) == [s EXCEPT ![p] = d]

\* --seed values.
Passphrases == {<<"t", "e", "s", "t">>}

\* --raw-seed values of the main specification: valid, too short, not hex.
RawSeedsSmall ==
    {Rep("a", RawSeedLen), Rep("0", RawSeedLen - 1),
     With(Rep("0", RawSeedLen), 1, "g")}

\* --raw-seed values of the seed resolver's specification: runs of one hex
\* digit of several lengths, as they are and with one character replaced.
RawSeedsAll ==
    LET lens == {0, RawSeedLen - 1, RawSeedLen, RawSeedLen + 1, 2 * RawSeedLen}
        base == {Rep(c, n) : c \in {"0", "a", "F"}, n \in lens}
    IN base \cup
       UNION {{With(s, p, d) : p \in ({1, 2, Len(s)} \cap 1..Len(s)),
                               d \in {"g", "A", "7", " "}} : s \in base}

ArgsOver(raws) ==
    [seed : {None} \cup {Some(p) : p \in Passphrases},
     raw_seed : {None} \cup {Some(r) : r \in raws}]

\* Mutant of get_seed: the length of the raw seed is not checked.
get_seed_NoLengthCheck(a, w, r) ==
    IF a.seed # None /\ a.raw_seed # None
    THEN [kind |-> "ConflictingSeedInputs", seeds |-> {}]
    ELSE IF a.seed # None
    THEN [kind |-> "ok", seeds |-> {Sha256(a.seed[1])}]
    ELSE IF a.raw_seed # None
    THEN LET d == decode_to_slice(a.raw_seed[1], Len(a.raw_seed[1]) \div 2)
         IN IF d.ok
            THEN [kind |-> "ok",
                  seeds |-> {[i \in 1..SeedLen |->
                                IF i <= Len(d.bytes) THEN d.bytes[i] ELSE 0]}]
            ELSE [kind |-> "InvalidHexEncoding", seeds |-> {}]
    ELSE IF ~w /\ r
    THEN [kind |-> "RandomSeedRequiresWrite", seeds |-> {}]
    ELSE [kind |-> "ok", seeds |-> RandomSeeds]

\* Mutant of get_seed: a random seed is accepted in every mode.
get_seed_NoModeCheck(a, w, r) ==
    IF a.seed # None /\ a.raw_seed # None
    THEN [kind |-> "ConflictingSeedInputs", seeds |-> {}]
    ELSE IF a.seed # None
    THEN [kind |-> "ok", seeds |-> {Sha256(a.seed[1])}]
    ELSE IF a.raw_seed # None
    THEN IF Len(a.raw_seed[1]) # RawSeedLen
         THEN [kind |-> "InvalidRawSeedLength", seeds |-> {}]
         ELSE LET d == decode_to_slice(a.raw_seed[1], SeedLen)
              IN IF d.ok THEN [kind |-> "ok", seeds |-> {d.bytes}]
                 ELSE [kind |-> "InvalidHexEncoding", seeds |-> {}]
    ELSE [kind |-> "ok", seeds |-> RandomSeeds]

\* get_seed(&args): its outcome, and on success the seeds it may return
\* (one, or any random seed).  w, r are args.write, args.read.
get_seed(a, w, r) ==
    IF a.seed # None /\ a.raw_seed # None
    THEN [kind |-> "ConflictingSeedInputs", seeds |-> {}]
    ELSE IF a.seed # None
    THEN [kind |-> "ok", seeds |-> {Sha256(a.seed[1])}]
    ELSE IF a.raw_seed # None
    THEN IF Len(a.raw_seed[1]) # RawSeedLen
         THEN [kind |-> "InvalidRawSeedLength", seeds |-> {}]
         ELSE LET d == decode_to_slice(a.raw_seed[1], SeedLen)
              IN IF d.ok THEN [kind |-> "ok", seeds |-> {d.bytes}]
                 ELSE [kind |-> "InvalidHexEncoding", seeds |-> {}]
    ELSE IF ~w /\ r
    THEN [kind |-> "RandomSeedRequiresWrite", seeds |-> {}]
    ELSE [kind |-> "ok", seeds |-> RandomSeeds]

(* ------------------------------- state -------------------------------- *)
VARIABLES
    pc,             \* position in _main / the engines
    write, read,    \* args.write, args.read
    args,           \* args.seed, args.raw_seed (until the generator is built)
    seed,           \* get_seed's result (until it is moved into the generator)
    rng,            \* the generator built in _main (line 69)
    block_size,     \* get_block_size's result
    disk_size,      \* get_disk_size's result
    response,       \* the line read from stdin at the prompt
    dev,            \* the device's stored bytes; Len(dev) is its real capacity
    wpos,           \* file offset of write_device's handle: bytes the device accepted
    rpos,           \* file offset of read_device's handle: bytes the device returned
    gates,          \* the steps of _main that have succeeded so far
    lastIo,         \* the latest device call of an engine and its result
    synced,         \* sync_all has succeeded
    tty,            \* stderr().is_tty() of the running engine
    wrng, buf, to_write, written_bytes, wres,         \* write_device
    rrng, device_buf, rng_buf, read_bytes, rres,      \* read_device
    err             \* the error the run ended with

vars == <<pc, write, read, args, seed, rng, block_size, disk_size, response, dev, wpos,
          rpos, gates, lastIo, synced, tty, wrng, buf, to_write, written_bytes, wres,
          rrng, device_buf, rng_buf, read_bytes, rres, err>>

mainVars == <<write, read, args, seed, rng, block_size, disk_size, response,
             gates>>
writeVars == <<wrng, buf, to_write, written_bytes, wres>>
readVars == <<rrng, device_buf, rng_buf, read_bytes, rres>>
devVars == <<dev, wpos, rpos, lastIo, synced>>

NoErr == [kind |-> "none", bytes |-> 0, expected |-> 0, offset |-> 0,
          device_byte |-> 0, expected_byte |-> 0]

\* An error whose context carries the bytes transferred so far.
Error(kind, n) == [NoErr EXCEPT !.kind = kind, !.bytes = n]

\* An error whose context carries no byte count.
ErrorNoCount(kind) == [NoErr EXCEPT !.kind = kind, !.bytes = -1]

\* "Wrote/Read {} bytes, but expected disk size to be {} bytes".
SizeError(kind, n, expected) ==
    [NoErr EXCEPT !.kind = kind, !.bytes = n, !.expected = expected]

NoIo == [op |-> "none", res |-> "none", n |-> 0]
Io(op, res, n) == [op |-> op, res |-> res, n |-> n]

\* The state after Args::from_args(), for the given command lines and
\* device contents.
InitWith(A, D) ==
    /\ pc = "parse"
    /\ write \in BOOLEAN
    /\ read \in BOOLEAN
    /\ args \in A
    /\ seed = <<>>
    /\ rng = from_seed(0)
    /\ block_size = 0
    /\ disk_size = 0
    /\ response = <<>>
    /\ dev \in D
    /\ wpos = 0
    /\ rpos = 0
    /\ gates = {}
    /\ lastIo = NoIo
    /\ synced = FALSE
    /\ tty = FALSE
    /\ wrng = from_seed(0)
    /\ buf = <<>>
    /\ to_write = <<>>
    /\ written_bytes = 0
    /\ wres = "none"
    /\ rrng = from_seed(0)
    /\ device_buf = <<>>
    /\ rng_buf = <<>>
    /\ read_bytes = 0
    /\ rres = "none"
    /\ err = NoErr

Init == InitWith(ArgsOver(RawSeedsSmall), SeqsUpTo(MaxCap))

\* Many command lines, devices of at most one byte.
InitSeed == InitWith(ArgsOver(RawSeedsAll), SeqsUpTo(1))

\* `?` / bail!: the run ends with an error.
Fail(e) == pc' = "failed" /\ err' = e

(* ------------------------------- _main -------------------------------- *)
\* Lines 56-61: no mode flag means write and read.
DefaultMode ==
    /\ pc = "parse"
    /\ IF ~write /\ ~read
       THEN write' = TRUE /\ read' = TRUE
       ELSE UNCHANGED <<write, read>>
    /\ pc' = "get_seed"
    /\ UNCHANGED <<args, seed, rng, block_size, disk_size, response, gates, tty, err>>
    /\ UNCHANGED <<devVars, writeVars, readVars>>

\* Line 63: get_seed(&args).
GetSeed ==
    /\ pc = "get_seed"
    /\ LET r == get_seed(args, write, read)
       IN IF r.kind = "ok"
          THEN /\ \E sd \in r.seeds : seed' = sd
               /\ gates' = gates \cup {"seed"}
               /\ pc' = "make_rng"
               /\ err' = err
          ELSE /\ Fail(ErrorNoCount(r.kind))
               /\ UNCHANGED <<seed, gates>>
    /\ UNCHANGED <<write, read, args, rng, block_size, disk_size, response, tty>>
    /\ UNCHANGED <<devVars, writeVars, readVars>>

\* Lines 64-69: the seed is reported and moved into the generator;
\* args.seed and args.raw_seed are not read again.
MakeRng ==
    /\ pc = "make_rng"
    /\ rng' = from_seed(SeedKey(seed))
    /\ seed' = <<>>
    /\ args' = [seed |-> None, raw_seed |-> None]
    /\ pc' = "get_block_size"
    /\ UNCHANGED <<write, read, block_size, disk_size, response, gates, tty, err>>
    /\ UNCHANGED <<devVars, writeVars, readVars>>

\* Lines 71-76, 157-172: the path must be a block device.
GetBlockSize ==
    /\ pc = "get_block_size"
    /\ \/ /\ \E bs \in BlockSizes : block_size' = bs
          /\ gates' = gates \cup {"block_size"}
          /\ pc' = "get_disk_size"
          /\ err' = err
       \/ /\ Fail(ErrorNoCount("NotABlockDevice"))
          /\ UNCHANGED <<block_size, gates>>
       \/ /\ Fail(ErrorNoCount("MetadataError"))
          /\ UNCHANGED <<block_size, gates>>
    /\ UNCHANGED <<write, read, args, seed, rng, disk_size, response, tty>>
    /\ UNCHANGED <<devVars, writeVars, readVars>>

\* Lines 78-83, 174-180: seek to the end; the reported size need not be the
\* capacity the device really stores.
GetDiskSize ==
    /\ pc = "get_disk_size"
    /\ \/ /\ \E size \in 0..MaxCap : disk_size' = size
          /\ gates' = gates \cup {"disk_size"}
          /\ pc' = "confirm"
          /\ err' = err
       \/ /\ Fail(ErrorNoCount("DiskSizeError"))
          /\ UNCHANGED <<disk_size, gates>>
    /\ UNCHANGED <<write, read, args, seed, rng, block_size, response, tty>>
    /\ UNCHANGED <<devVars, writeVars, readVars>>

\* Lines 85-95: the confirmation prompt of a writing run.
\* Mutant of Confirm: the prompt and the write phase do not depend on the
\* mode.
Confirm_NoModeCheck ==
    /\ pc = "confirm"
    /\ \/ \E line \in Responses :
            /\ response' = line
            /\ IF Accepted(line)
               THEN /\ gates' = gates \cup {"confirm"}
                    /\ pc' = "write_open"
                    /\ err' = err
               ELSE /\ Fail(ErrorNoCount("Declined"))
                    /\ gates' = gates
       \/ /\ Fail(ErrorNoCount("StdinError"))
          /\ UNCHANGED <<response, gates>>
    /\ UNCHANGED <<write, read, args, seed, rng, block_size, disk_size, tty>>
    /\ UNCHANGED <<devVars, writeVars, readVars>>

Confirm ==
    /\ pc = "confirm"
    /\ IF write
       THEN \/ \E line \in Responses :
                 /\ response' = line
                 /\ IF Accepted(line)
                    THEN /\ gates' = gates \cup {"confirm"}
                         /\ pc' = "write_open"
                         /\ err' = err
                    ELSE /\ Fail(ErrorNoCount("Declined"))
                         /\ gates' = gates
            \/ /\ Fail(ErrorNoCount("StdinError"))
               /\ UNCHANGED <<response, gates>>
       ELSE /\ pc' = "read_open"
            /\ UNCHANGED <<response, gates, err>>
    /\ UNCHANGED <<write, read, args, seed, rng, block_size, disk_size, tty>>
    /\ UNCHANGED <<devVars, writeVars, readVars>>

(* ---------------------------- write_device ---------------------------- *)
\* Lines 183-195: File::create (truncation does not change a block
\* device's bytes), allocate the block buffer, clone of the main generator.
WriteOpen ==
    /\ pc = "write_open"
    /\ \/ /\ lastIo' = Io("create", "ok", 0)
          /\ wpos' = 0
          /\ buf' = Zeros(block_size)
          /\ \E t \in BOOLEAN : tty' = t
          /\ wrng' = rng
          /\ written_bytes' = 0
          /\ pc' = "w_loop"
          /\ UNCHANGED <<to_write, err>>
       \/ /\ lastIo' = Io("create", "err", 0)
          /\ Fail(ErrorNoCount("CreateError"))
          /\ UNCHANGED <<wpos, buf, tty, wrng, written_bytes, to_write>>
    /\ UNCHANGED <<mainVars, dev, rpos, synced, wres, readVars>>

\* Mutant of WLoopHead: the loop also ends once disk_size bytes are written.
WLoopHead_StopAtDiskSize ==
    /\ pc = "w_loop"
    /\ IF written_bytes >= disk_size
       THEN /\ pc' = "w_sync"
            /\ UNCHANGED <<buf, wrng, to_write, err>>
       ELSE /\ buf' = FillBytes(wrng, Len(buf))
            /\ wrng' = FillAdvance(wrng, Len(buf))
            /\ to_write' = buf'
            /\ pc' = "w_write"
            /\ err' = err
    /\ UNCHANGED <<mainVars, devVars, tty, written_bytes, wres, readVars>>

\* Lines 196-218: top of the outer loop: the progress report (only on a tty,
\* only after UPDATE_FREQUENCY; its cursor move can fail), then one whole
\* block is generated and to_write restarts at the block's first byte.
WLoopHead ==
    /\ pc = "w_loop"
    /\ \/ /\ buf' = FillBytes(wrng, Len(buf))
          /\ wrng' = FillAdvance(wrng, Len(buf))
          /\ to_write' = buf'
          /\ pc' = IF Len(buf) = 0 THEN "w_loop" ELSE "w_write"
          /\ err' = err
       \/ /\ tty
          /\ Fail(ErrorNoCount("CursorError"))
          /\ UNCHANGED <<buf, wrng, to_write>>
    /\ UNCHANGED <<mainVars, devVars, tty, written_bytes, wres, readVars>>

\* Mutant of WriteOk: after a partial write the engine goes on to the next
\* block instead of the rest of this one.
WriteOk_Regenerate ==
    /\ pc = "w_write"
    /\ to_write # <<>>
    /\ wpos < Len(dev)
    /\ \E n \in 1..Min(Len(to_write), Len(dev) - wpos) :
         /\ dev' = Store(dev, wpos, SubSeq(to_write, 1, n))
         /\ wpos' = wpos + n
         /\ lastIo' = Io("write", "ok", n)
         /\ written_bytes' = written_bytes + n
         /\ to_write' = DropFirst(to_write, n)
         /\ pc' = "w_loop"
    /\ UNCHANGED <<mainVars, rpos, synced, tty, wrng, buf, wres, readVars, err>>

\* Lines 220, 227-230: the device accepts n >= 1 bytes of to_write.
WriteOk ==
    /\ pc = "w_write"
    /\ to_write # <<>>
    /\ wpos < Len(dev)
    /\ \E n \in 1..Min(Len(to_write), Len(dev) - wpos) :
         /\ dev' = Store(dev, wpos, SubSeq(to_write, 1, n))
         /\ wpos' = wpos + n
         /\ lastIo' = Io("write", "ok", n)
         /\ written_bytes' = written_bytes + n
         /\ to_write' = DropFirst(to_write, n)
         /\ pc' = IF DropFirst(to_write, n) = <<>> THEN "w_loop" ELSE "w_write"
    /\ UNCHANGED <<mainVars, rpos, synced, tty, wrng, buf, wres, readVars, err>>

\* Mutant of WriteZero: a zero-length write is taken for the end of the device.
WriteZero_AsEndOfDevice ==
    /\ pc = "w_write"
    /\ to_write # <<>>
    /\ lastIo' = Io("write", "ok", 0)
    /\ pc' = "w_sync"
    /\ UNCHANGED <<mainVars, dev, wpos, rpos, synced, tty, writeVars, readVars, err>>

\* Lines 220-226: a write that succeeds with length zero.
\* Mutant of WriteZero: a write of zero bytes is tried again.
WriteZero_Retry ==
    /\ pc = "w_write"
    /\ to_write # <<>>
    /\ lastIo' = Io("write", "ok", 0)
    /\ UNCHANGED <<pc, err>>
    /\ UNCHANGED <<mainVars, dev, wpos, rpos, synced, tty, writeVars, readVars>>

WriteZero ==
    /\ pc = "w_write"
    /\ to_write # <<>>
    /\ lastIo' = Io("write", "ok", 0)
    /\ Fail(Error("NoProgressWriting", written_bytes))
    /\ UNCHANGED <<mainVars, dev, wpos, rpos, synced, tty, writeVars, readVars>>

\* Lines 220, 231-234: the write raises OS error 28 (the device is full).
WriteEnospc ==
    /\ pc = "w_write"
    /\ to_write # <<>>
    /\ wpos = Len(dev)
    /\ lastIo' = Io("write", "enospc", 0)
    /\ pc' = "w_sync"
    /\ UNCHANGED <<mainVars, dev, wpos, rpos, synced, tty, writeVars, readVars, err>>

\* Mutant of SyncAll: the engine returns without calling sync_all.
SyncAll_NoSync ==
    /\ pc = "w_sync"
    /\ wres' = "ok"
    /\ pc' = "w_ret"
    /\ UNCHANGED <<mainVars, devVars, tty, wrng, buf, to_write,
                   written_bytes, readVars, err>>

\* Lines 235-238: sync_all, then return written_bytes.
SyncAll ==
    /\ pc = "w_sync"
    /\ \/ /\ lastIo' = Io("sync", "ok", 0)
          /\ synced' = TRUE
          /\ wres' = "ok"
          /\ pc' = "w_ret"
          /\ err' = err
       \/ /\ lastIo' = Io("sync", "err", 0)
          /\ Fail(ErrorNoCount("FsyncError"))
          /\ UNCHANGED <<synced, wres>>
    /\ UNCHANGED <<mainVars, dev, wpos, rpos, tty, wrng, buf, to_write,
                   written_bytes, readVars>>

\* Mutant of WriteErr: the failed write is retried.
WriteErr_Retry ==
    /\ pc = "w_write"
    /\ to_write # <<>>
    /\ lastIo' = Io("write", "err", 0)
    /\ UNCHANGED <<pc, mainVars, dev, wpos, rpos, synced, tty, writeVars,
                   readVars, err>>

\* Lines 220, 231-233, 242-245: any other write error.
WriteErr ==
    /\ pc = "w_write"
    /\ to_write # <<>>
    /\ lastIo' = Io("write", "err", 0)
    /\ Fail(Error("WriteIoError", written_bytes))
    /\ UNCHANGED <<mainVars, dev, wpos, rpos, synced, tty, writeVars, readVars>>

\* Lines 98-107: _main compares the written count with the measured size.
\* Mutant of CheckWritten: the written count is not compared with disk_size.
CheckWritten_NoCompare ==
    /\ pc = "w_ret"
    /\ pc' = (IF read THEN "read_open" ELSE "done")
    /\ UNCHANGED <<mainVars, devVars, tty, writeVars, readVars, err>>

CheckWritten ==
    /\ pc = "w_ret"
    /\ IF written_bytes # disk_size
       THEN Fail(SizeError("WrittenSizeMismatch", written_bytes, disk_size))
       ELSE pc' = (IF read THEN "read_open" ELSE "done") /\ err' = err
    /\ UNCHANGED <<mainVars, devVars, tty, writeVars, readVars>>

(* ----------------------------- read_device ---------------------------- *)
\* Mutant of ScanFrom: the scan does not look at index 0.
RECURSIVE ScanFrom_SkipFirst(_, _, _, _)
ScanFrom_SkipFirst(a, b, i, len) ==
    IF i >= len THEN len
    ELSE IF i > 0 /\ a[i + 1] # b[i + 1] THEN i
    ELSE ScanFrom_SkipFirst(a, b, i + 1, len)

\* Index (from 0) of the first differing byte among the first len bytes, as
\* the scan of lines 304-310 finds it; len when the scan finds none.
RECURSIVE ScanFrom(_, _, _, _)
ScanFrom(a, b, i, len) ==
    IF i >= len THEN len
    ELSE IF a[i + 1] # b[i + 1] THEN i
    ELSE ScanFrom(a, b, i + 1, len)

\* Mutant of ReadOpen: read_device continues with the write generator.
ReadOpen_SharedRng ==
    /\ pc = "read_open"
    /\ \/ /\ lastIo' = Io("open", "ok", 0)
          /\ rpos' = 0
          /\ device_buf' = Zeros(block_size)
          /\ rng_buf' = Zeros(block_size)
          /\ \E t \in BOOLEAN : tty' = t
          /\ rrng' = IF write THEN wrng ELSE rng
          /\ read_bytes' = 0
          /\ pc' = "r_loop"
          /\ err' = err
       \/ /\ lastIo' = Io("open", "err", 0)
          /\ Fail(ErrorNoCount("OpenError"))
          /\ UNCHANGED <<rpos, device_buf, rng_buf, tty, rrng, read_bytes>>
    /\ UNCHANGED <<mainVars, dev, wpos, synced, rres, writeVars>>

\* Lines 253-266: File::open, two block buffers, the main generator itself.
ReadOpen ==
    /\ pc = "read_open"
    /\ \/ /\ lastIo' = Io("open", "ok", 0)
          /\ rpos' = 0
          /\ device_buf' = Zeros(block_size)
          /\ rng_buf' = Zeros(block_size)
          /\ \E t \in BOOLEAN : tty' = t
          /\ rrng' = rng
          /\ read_bytes' = 0
          /\ pc' = "r_loop"
          /\ err' = err
       \/ /\ lastIo' = Io("open", "err", 0)
          /\ Fail(ErrorNoCount("OpenError"))
          /\ UNCHANGED <<rpos, device_buf, rng_buf, tty, rrng, read_bytes>>
    /\ UNCHANGED <<mainVars, dev, wpos, synced, rres, writeVars>>

\* Lines 267-284: top of the loop: the progress report.
RLoopHead ==
    /\ pc = "r_loop"
    /\ \/ pc' = "r_read" /\ err' = err
       \/ tty /\ Fail(ErrorNoCount("CursorError"))
    /\ UNCHANGED <<mainVars, devVars, tty, writeVars, readVars>>

\* Lines 286, 293, 301-314: a read of len >= 1 bytes, the same number of
\* generated bytes, the comparison.
ReadOk ==
    /\ pc = "r_read"
    /\ rpos < Len(dev)
    /\ \E len \in 1..Min(Len(device_buf), Len(dev) - rpos) :
         LET dbuf == Overlay(device_buf, SubSeq(dev, rpos + 1, rpos + len))
             rbuf == Overlay(rng_buf, FillBytes(rrng, len))
             i == ScanFrom(dbuf, rbuf, 0, len)
         IN /\ lastIo' = Io("read", "ok", len)
            /\ rpos' = rpos + len
            /\ device_buf' = dbuf
            /\ rng_buf' = rbuf
            /\ rrng' = FillAdvance(rrng, len)
            /\ IF SubSeq(dbuf, 1, len) # SubSeq(rbuf, 1, len)
               THEN /\ IF i < len
                       THEN Fail([kind |-> "VerificationMismatch",
                                  bytes |-> read_bytes,
                                  offset |-> read_bytes + i,
                                  device_byte |-> dbuf[i + 1],
                                  expected_byte |-> rbuf[i + 1]])
                       ELSE Fail(ErrorNoCount("Unreachable"))
                    /\ read_bytes' = read_bytes
               ELSE /\ read_bytes' = read_bytes + len
                    /\ pc' = "r_loop"
                    /\ err' = err
    /\ UNCHANGED <<mainVars, dev, wpos, synced, tty, writeVars, rres>>

\* Lines 286-292: a read of length zero: end of the device.
ReadEof ==
    /\ pc = "r_read"
    /\ rpos = Len(dev)
    /\ lastIo' = Io("read", "ok", 0)
    /\ rres' = "ok"
    /\ pc' = "r_ret"
    /\ UNCHANGED <<mainVars, dev, wpos, rpos, synced, tty, writeVars, rrng,
                   device_buf, rng_buf, read_bytes, err>>

\* Lines 286, 294-299: a read error.
ReadErr ==
    /\ pc = "r_read"
    /\ lastIo' = Io("read", "err", 0)
    /\ Fail(Error("ReadIoError", read_bytes))
    /\ UNCHANGED <<mainVars, dev, wpos, rpos, synced, tty, writeVars, readVars>>

\* Mutant of CheckRead: the message names the written count.
CheckRead_WrongCount ==
    /\ pc = "r_ret"
    /\ IF read_bytes # disk_size
       THEN Fail(SizeError("ReadSizeMismatch", written_bytes, disk_size))
       ELSE pc' = "done" /\ err' = err
    /\ UNCHANGED <<mainVars, devVars, tty, writeVars, readVars>>

\* Mutant of CheckRead: the read count is not compared with disk_size.
CheckRead_NoCompare ==
    /\ pc = "r_ret"
    /\ pc' = "done"
    /\ UNCHANGED <<mainVars, devVars, tty, writeVars, readVars, err>>

\* Lines 110-122: _main compares the read count with the measured size.
CheckRead ==
    /\ pc = "r_ret"
    /\ IF read_bytes # disk_size
       THEN Fail(SizeError("ReadSizeMismatch", read_bytes, disk_size))
       ELSE pc' = "done" /\ err' = err
    /\ UNCHANGED <<mainVars, devVars, tty, writeVars, readVars>>

Next ==
    \/ DefaultMode \/ GetSeed \/ MakeRng \/ GetBlockSize \/ GetDiskSize \/ Confirm
    \/ WriteOpen \/ WLoopHead \/ WriteOk \/ WriteZero \/ WriteEnospc
    \/ SyncAll \/ WriteErr \/ CheckWritten
    \/ ReadOpen \/ RLoopHead \/ ReadOk \/ ReadEof \/ ReadErr \/ CheckRead

Spec == Init /\ [][Next]_vars

\* The same program over many command lines.
SpecSeed == InitSeed /\ [][Next]_vars

\* The device is opened by path a second time for the read phase (line 253):
\* between the phases it may have been made smaller.
Resize ==
    /\ pc = "read_open"
    /\ write
    /\ \E k \in 0..(Len(dev) - 1) : dev' = SubSeq(dev, 1, k)
    /\ UNCHANGED <<pc, mainVars, wpos, rpos, lastIo, synced, tty, writeVars,
                   readVars, err>>

\* The program on a device that may shrink between the phases.
SpecResize == Init /\ [][Next \/ Resize]_vars

(* ======================= properties of the engines ====================== *)
\* Offsets at which the device differs from the keyed stream of the run.
Differs == {k \in 0..(Len(dev) - 1) : dev[k + 1] # KeyStream(rng.seed, k)}

SetMin(S) == CHOOSE x \in S : \A y \in S : x <= y

\* The device's bytes at offsets [0, n) are the first n bytes of the keyed
\* stream.
StreamPrefix(n) == \A o \in 0..(n - 1) : dev[o + 1] = KeyStream(rng.seed, o)

(* C1: mismatch localization.  When the device differs from the keyed       *)
(* stream at one or more offsets, read_device does not succeed, and the     *)
(* mismatch it reports names the smallest differing device offset K, the    *)
(* device byte at K and the stream byte at K, for every split of the        *)
(* content into reads.                                                      *)
C1_MismatchLocalization ==
    Differs # {} =>
        /\ err.kind = "VerificationMismatch" =>
             /\ err.offset = SetMin(Differs)
             /\ err.device_byte = dev[SetMin(Differs) + 1]
             /\ err.expected_byte = KeyStream(rng.seed, SetMin(Differs))
        /\ rres # "ok"

(* C2: write/read symmetry.  In a write-then-read run against a finite     *)
(* sink, write_device returns the sink's size N, read_device finds no      *)
(* mismatch and returns N as well, for every pattern of partial writes and *)
(* short reads.                                                            *)
C2_WriteReadSymmetry ==
    (write /\ read) =>
        /\ wres = "ok" => written_bytes = Len(dev)
        /\ err.kind \notin {"VerificationMismatch", "Unreachable"}
        /\ rres = "ok" => read_bytes = written_bytes /\ read_bytes = Len(dev)

(* C3: out-of-space termination.  After the write that raises out-of-space *)
(* the engine is at its sync; it returns successfully only after a          *)
(* successful sync, and the count it returns is exactly the number of bytes *)
(* M the device accepted (the unaccepted rest of the block is not counted); *)
(* a failed sync ends the run without a successful return.                  *)
C3_EnospcTermination ==
    /\ lastIo = Io("write", "enospc", 0) => pc = "w_sync" /\ err = NoErr
    /\ pc = "w_sync" => lastIo = Io("write", "enospc", 0) /\ wres = "none"
    /\ lastIo = Io("sync", "ok", 0) => wres = "ok"
    /\ wres = "ok" => synced /\ written_bytes = wpos
    /\ lastIo = Io("sync", "err", 0) => pc = "failed" /\ wres = "none"

\* Out-of-space in the middle of a block, then a successful return.
C3_Witness ==
    /\ wres = "ok"
    /\ synced
    /\ written_bytes > 0
    /\ to_write # <<>>
    /\ Len(to_write) < Len(buf)

(* C4: partial writes.  The bytes the device has accepted are exactly the  *)
(* first written_bytes bytes of the keyed stream; while a block is being    *)
(* drained to_write is the not yet accepted rest of that same block, and    *)
(* the engine is back at the top of its loop (where the next block is       *)
(* generated) only when every generated byte has been accepted.             *)
C4_PartialWrites ==
    /\ written_bytes = wpos
    /\ StreamPrefix(written_bytes)
    /\ pc = "w_write" =>
         /\ to_write # <<>>
         /\ to_write = [i \in 1..Len(to_write) |->
                           KeyStream(rng.seed, written_bytes + i - 1)]
         /\ written_bytes + Len(to_write) = WordBytes * wrng.w
    /\ pc = "w_loop" => written_bytes = WordBytes * wrng.w

\* A block has been accepted in more than one write, the last of one byte,
\* and the engine is back at the top of its loop.
C4_Witness ==
    /\ pc = "w_loop"
    /\ written_bytes = block_size
    /\ lastIo = Io("write", "ok", 1)

(* C5: the run succeeds only if every requested phase returned Ok and its   *)
(* byte count equals the measured disk_size; an error or a count            *)
(* discrepancy ends the run as failed, and a failed run stays failed.       *)
C5_SuccessOnlyIfPhasesMatch ==
    /\ pc = "done" =>
         /\ err = NoErr
         /\ "disk_size" \in gates
         /\ write => wres = "ok" /\ written_bytes = disk_size
         /\ read => rres = "ok" /\ read_bytes = disk_size
    /\ err # NoErr => pc = "failed"
    /\ (wres = "ok" /\ written_bytes # disk_size) => pc \in {"w_ret", "failed"}
    /\ (rres = "ok" /\ read_bytes # disk_size) => pc \in {"r_ret", "failed"}
    /\ pc \in {"failed", "done"} => ~ENABLED Next

\* A successful write-and-read run over a non-empty device.
C5_Witness == pc = "done" /\ write /\ read /\ disk_size > 0

\* The response is "y" or "Y" between whitespace.
IsYes(line) ==
    \E i \in 1..Len(line) :
        /\ line[i] \in {"y", "Y"}
        /\ \A j \in 1..Len(line) : j # i => line[j] \in Whitespace

GateErrors ==
    {"ConflictingSeedInputs", "InvalidRawSeedLength", "InvalidHexEncoding",
     "RandomSeedRequiresWrite", "NotABlockDevice", "MetadataError",
     "DiskSizeError", "StdinError", "Declined"}

(* C6: nothing destructive before the safety gates.  write_device is       *)
(* entered, the device opened for writing and written to only in a writing  *)
(* run in which seed resolution, the block size query and the capacity      *)
(* query succeeded and the operator's answer, trimmed, is y or Y; a run     *)
(* that ends with a configuration error or a declined prompt has issued no  *)
(* call of write_device on the device.                                      *)
C6_SafetyGates ==
    /\ (\/ pc \in {"write_open", "w_loop", "w_write", "w_sync", "w_ret"}
        \/ lastIo.op \in {"create", "write", "sync"}
        \/ wpos > 0)
       => /\ write
          /\ {"seed", "block_size", "disk_size", "confirm"} \subseteq gates
          /\ IsYes(response)
    /\ err.kind \in GateErrors => lastIo = NoIo /\ wpos = 0 /\ pc = "failed"

\* Bytes have been written after an answer that needed trimming.
C6_Witness ==
    /\ lastIo = Io("write", "ok", 1)
    /\ wpos > 1
    /\ response = <<" ", "y", " ", "\n">>

(* C7: clean end-of-device on read.  A read of length zero makes            *)
(* read_device return successfully with the read_bytes accumulated so far,  *)
(* and then every device byte at offsets [0, read_bytes) equals the         *)
(* keyed-stream byte at the same offset.                                    *)
C7_CleanEndOfDevice ==
    /\ lastIo = Io("read", "ok", 0) => rres = "ok" /\ read_bytes = rpos
    /\ rres = "ok" => lastIo = Io("read", "ok", 0) /\ StreamPrefix(read_bytes)

(* C8: a write that succeeds with length zero is fatal: the run fails with  *)
(* the no-progress error carrying written_bytes, nothing was synced, the    *)
(* engine has not returned successfully and makes no further step.          *)
C8_ZeroWriteFatal ==
    lastIo = Io("write", "ok", 0) =>
        /\ pc = "failed"
        /\ err = Error("NoProgressWriting", written_bytes)
        /\ ~synced
        /\ wres = "none"
        /\ ~ENABLED Next

\* A zero-length write after some bytes were accepted, with room left.
C8_Witness ==
    /\ lastIo = Io("write", "ok", 0)
    /\ written_bytes > 0
    /\ wpos < Len(dev)

(* C9, as stated: every failed write, sync or read call of an engine ends   *)
(* the run with an error whose context carries the bytes transferred.       *)
C9_EveryIoErrorCarriesCount ==
    (lastIo.res = "err" /\ lastIo.op \in {"write", "sync", "read"}) =>
        /\ pc = "failed"
        /\ err.bytes = (IF lastIo.op = "read" THEN read_bytes ELSE written_bytes)

(* C9, amended: an error of a write call other than out-of-space, and an    *)
(* error of a read call, ends the run at once with an error that carries    *)
(* the bytes transferred so far; a failed sync, create or open ends the run *)
(* at once too, with an error that carries no byte count.  After any of     *)
(* them the engine makes no further step.                                   *)
C9_IoErrorsFatal ==
    /\ lastIo = Io("write", "err", 0) =>
         err = Error("WriteIoError", written_bytes) /\ wres = "none" /\ ~synced
    /\ lastIo = Io("read", "err", 0) =>
         err = Error("ReadIoError", read_bytes) /\ rres = "none"
    /\ (lastIo.res = "err" /\ lastIo.op \in {"sync", "create", "open"}) =>
         err.bytes = -1
    /\ lastIo.res = "err" => pc = "failed" /\ ~ENABLED Next

\* A write error and a read error, each after some bytes were transferred.
C9_Witness ==
    \/ lastIo = Io("write", "err", 0) /\ written_bytes > 0
    \/ lastIo = Io("read", "err", 0) /\ read_bytes > 0 /\ write

(* C10: the engines do not terminate on the reported capacity.  Whatever    *)
(* disk_size is, write_device keeps writing while the device accepts bytes  *)
(* and returns the device's real capacity, read_device returns the real     *)
(* capacity, and a written count above disk_size fails the run in _main.    *)
C10_CapacityNotUsedToTerminate ==
    /\ (pc = "w_write" /\ wpos < Len(dev)) => ENABLED WriteOk
    /\ wres = "ok" => written_bytes = Len(dev)
    /\ rres = "ok" => read_bytes = Len(dev)
    /\ (wres = "ok" /\ written_bytes > disk_size /\ pc # "w_ret") =>
         pc = "failed" /\ err = SizeError("WrittenSizeMismatch", written_bytes, disk_size)

\* The device was written past a non-zero disk_size and the run failed.
C10_Witness ==
    /\ err = SizeError("WrittenSizeMismatch", written_bytes, disk_size)
    /\ disk_size > 0
    /\ written_bytes > disk_size


(* C11: generator independence across phases.  The generator of _main is   *)
(* never advanced; the one handed to read_device starts at stream position *)
(* 0 with the seed of the write generator, however far the write generator *)
(* has advanced; a step that advances the write generator changes neither  *)
(* the read generator nor the generator of _main.                          *)
C11_GeneratorIndependence ==
    /\ [](/\ rng.w = 0
          /\ lastIo = Io("open", "ok", 0)
             => /\ rrng = from_seed(rng.seed)
                /\ write => rrng.seed = wrng.seed)
    /\ [][wrng' # wrng => rrng' = rrng /\ rng' = rng]_vars

\* read_device has just been entered after a write phase that generated
\* more than one word.
C11_Witness ==
    /\ lastIo = Io("open", "ok", 0)
    /\ write
    /\ wrng.w > 1
    /\ rrng.w = 0

\* Failures of an engine that come from the device or from the comparison.
DeviceErrors ==
    {"CreateError", "NoProgressWriting", "WriteIoError", "FsyncError",
     "OpenError", "ReadIoError", "VerificationMismatch", "Unreachable"}

(* C12: progress reporting does not influence the engines.  An engine      *)
(* fails only because of what the device returned (or of the comparison),  *)
(* never because of the reporter's terminal operation, so its calls and    *)
(* its result do not depend on the terminal.                               *)
C12_ReporterDoesNotInfluence ==
    pc = "failed"
       /\ err.kind \notin GateErrors \cup {"WrittenSizeMismatch", "ReadSizeMismatch"}
    => err.kind \in DeviceErrors

\* get_seed has just returned.
SeedResolved == pc = "make_rng" \/ (pc = "failed" /\ "seed" \notin gates)

SeedErrors ==
    {"ConflictingSeedInputs", "InvalidRawSeedLength", "InvalidHexEncoding",
     "RandomSeedRequiresWrite"}

(* C13: seed resolver decision table, after mode defaulting.  No flag      *)
(* means write and read.  With a passphrase and a raw seed resolution      *)
(* fails (conflicting inputs); with neither, it fails in a read-only run   *)
(* (random seed requires write) and returns a random seed in a run that    *)
(* writes.                                                                 *)
C13_SeedDecisionTable ==
    /\ [][pc = "parse" /\ ~write /\ ~read => write' /\ read']_vars
    /\ [][pc = "parse" /\ (write \/ read) => write' = write /\ read' = read]_vars
    /\ [](SeedResolved /\ args.seed # None /\ args.raw_seed # None
            => pc = "failed" /\ err.kind = "ConflictingSeedInputs")
    /\ [](SeedResolved /\ args.seed = None /\ args.raw_seed = None
            /\ read /\ ~write
            => pc = "failed" /\ err.kind = "RandomSeedRequiresWrite")
    /\ [](SeedResolved /\ args.seed = None /\ args.raw_seed = None /\ write
            => pc = "make_rng" /\ seed \in RandomSeeds)

\* A random seed has been accepted in a run that writes and reads.
C13_Witness ==
    /\ pc = "make_rng"
    /\ args.seed = None /\ args.raw_seed = None
    /\ write /\ read
    /\ seed \in RandomSeeds

HexChars ==
    {"0", "1", "2", "3", "4", "5", "6", "7", "8", "9",
     "a", "b", "c", "d", "e", "f", "A", "B", "C", "D", "E", "F"}

ToLower(c) ==
    CASE c = "A" -> "a" [] c = "B" -> "b" [] c = "C" -> "c"
      [] c = "D" -> "d" [] c = "E" -> "e" [] c = "F" -> "f"
      [] OTHER -> c

IsHexString(r) == \A i \in 1..Len(r) : r[i] \in HexChars

\* get_seed has just returned and only a raw seed was supplied.
RawSeedResolved ==
    SeedResolved /\ args.seed = None /\ args.raw_seed # None

(* C14, as stated: a raw seed is accepted iff it is 64 hexadecimal         *)
(* characters, and then the hex encoding of the decoded 32 bytes is the    *)
(* input; any other length fails with the length error and a non-hex       *)
(* character among 64 with the encoding error, before any device access.   *)
C14_RawSeedRoundTrip ==
    RawSeedResolved =>
      LET r == args.raw_seed[1]
      IN /\ pc = "make_rng" <=> (Len(r) = RawSeedLen /\ IsHexString(r))
         /\ pc = "make_rng" => Len(seed) = SeedLen /\ encode(seed) = r
         /\ Len(r) # RawSeedLen => err.kind = "InvalidRawSeedLength"
         /\ Len(r) = RawSeedLen /\ ~IsHexString(r)
            => err.kind = "InvalidHexEncoding"
         /\ pc = "failed" => lastIo = NoIo

(* C14, amended: a raw seed is accepted iff it is 64 hexadecimal           *)
(* characters of either case; it decodes to 32 bytes whose hex encoding is *)
(* the input in lower case, and which decode from that encoding again; a   *)
(* length other than 64 fails with the length error, also when a character *)
(* is not hexadecimal; 64 characters of which one is not hexadecimal fail  *)
(* with the encoding error; both before any device access.                 *)
C14_RawSeedValidation ==
    RawSeedResolved =>
      LET r == args.raw_seed[1]
      IN /\ pc = "make_rng" <=> (Len(r) = RawSeedLen /\ IsHexString(r))
         /\ pc = "make_rng"
            => /\ Len(seed) = SeedLen
               /\ \A i \in 1..SeedLen : seed[i] \in 0..255
               /\ encode(seed) = [i \in 1..Len(r) |-> ToLower(r[i])]
               /\ decode_to_slice(encode(seed), SeedLen)
                    = [ok |-> TRUE, bytes |-> seed]
         /\ Len(r) # RawSeedLen => err.kind = "InvalidRawSeedLength"
         /\ Len(r) = RawSeedLen /\ ~IsHexString(r)
            => err.kind = "InvalidHexEncoding"
         /\ pc = "failed" => lastIo = NoIo /\ wpos = 0 /\ rpos = 0

\* An upper-case raw seed has been accepted.
C14_Witness ==
    /\ pc = "make_rng"
    /\ args.raw_seed = Some(Rep("F", RawSeedLen))
    /\ seed = Rep(255, SeedLen)

\* Both engines have returned Ok and _main has compared the counts.
BothPhasesRan ==
    write /\ read /\ wres = "ok" /\ rres = "ok" /\ pc \in {"failed", "done"}

(* C15, as stated: a written count that differs from the read count, when  *)
(* both phases ran, is a fatal condition of its own that names the written *)
(* count and the read count.                                               *)
C15_WrittenReadCondition ==
    BothPhasesRan /\ written_bytes # read_bytes
    => /\ pc = "failed"
       /\ err.kind = "WrittenReadMismatch"

(* C15, amended: there are two byte-count conditions.  Each is fatal and   *)
(* names the count of its phase and disk_size: written # disk_size after   *)
(* write_device returned Ok (the read phase is then not run), and          *)
(* read # disk_size after read_device returned Ok.  When both phases ran   *)
(* and the written count differs from the read count, the run fails with   *)
(* the read condition; there is no third condition.                        *)
C15_CountConditions ==
    /\ pc = "failed" /\ wres = "ok" /\ rres = "none" /\ written_bytes # disk_size
       => err = SizeError("WrittenSizeMismatch", written_bytes, disk_size)
    /\ err.kind = "WrittenSizeMismatch"
       => /\ pc = "failed" /\ wres = "ok" /\ rres = "none"
          /\ err.bytes = written_bytes /\ err.expected = disk_size
          /\ err.bytes # err.expected
          /\ lastIo.op \notin {"open", "read"}
    /\ rres = "ok" /\ pc \in {"failed", "done"} /\ read_bytes # disk_size
       => err = SizeError("ReadSizeMismatch", read_bytes, disk_size)
    /\ err.kind = "ReadSizeMismatch"
       => /\ pc = "failed" /\ rres = "ok"
          /\ err.bytes = read_bytes /\ err.expected = disk_size
          /\ err.bytes # err.expected
    /\ pc = "done" => (write => written_bytes = disk_size)
                      /\ (read => read_bytes = disk_size)
    /\ BothPhasesRan /\ written_bytes # read_bytes
       => /\ err.kind = "ReadSizeMismatch"
          /\ err.expected = written_bytes
    /\ err.kind # "WrittenReadMismatch"

\* Both phases ran and the counts differ.
C15_Witness ==
    /\ BothPhasesRan
    /\ written_bytes # read_bytes
    /\ read_bytes > 0
    /\ err.kind = "ReadSizeMismatch"

(* C16: read-side stream alignment.  At the start of every iteration of    *)
(* the read_device loop that reads more of the device, the stream position *)
(* of the read generator equals read_bytes, for every sequence of read     *)
(* lengths.                                                                *)
C16_ReadStreamAlignment ==
    pc \in {"r_loop", "r_read"} /\ rpos < Len(dev)
    => WordBytes * rrng.w = read_bytes

(* C17: the internal-invariant failure of read_device is unreachable:      *)
(* whenever the two chunks compare unequal the scan finds a differing      *)
(* index below len and the run fails with the mismatch error.              *)
C17_UnreachableIsUnreachable ==
    /\ err.kind # "Unreachable"
    /\ lastIo.op = "read" /\ lastIo.res = "ok" /\ lastIo.n > 0
         /\ SubSeq(device_buf, 1, lastIo.n) # SubSeq(rng_buf, 1, lastIo.n)
       => /\ pc = "failed"
          /\ err.kind = "VerificationMismatch"
          /\ err.offset \in err.bytes..(err.bytes + lastIo.n - 1)
          /\ err.device_byte = device_buf[err.offset - err.bytes + 1]
          /\ err.expected_byte = rng_buf[err.offset - err.bytes + 1]
          /\ err.device_byte # err.expected_byte

\* A mismatch found at the first index of a chunk of several bytes.
C17_Witness ==
    /\ err.kind = "VerificationMismatch"
    /\ err.offset = err.bytes
    /\ lastIo.n > 1

WriteFailures ==
    {"CreateError", "NoProgressWriting", "WriteIoError", "FsyncError",
     "WrittenSizeMismatch"}

(* C18: phase ordering in a run that writes and reads.  The device is      *)
(* opened for reading, and read, only after write_device has returned Ok   *)
(* (out of space, then a successful sync) and the written count has been   *)
(* found equal to disk_size; when the write phase fails or its count       *)
(* differs, the device is never opened for reading nor read.               *)
C18_PhaseOrdering ==
    /\ write /\ (\/ pc \in {"read_open", "r_loop", "r_read", "r_ret"}
                 \/ lastIo.op \in {"open", "read"}
                 \/ rpos > 0 \/ rres # "none")
       => /\ wres = "ok"
          /\ synced
          /\ written_bytes = disk_size
    /\ write /\ pc = "failed"
         /\ (err.kind \in WriteFailures \/ wres # "ok")
       => /\ lastIo.op \notin {"open", "read"}
          /\ rpos = 0
          /\ rres = "none"

\* A read of at least one byte in a run that wrote.
C18_Witness ==
    /\ write
    /\ lastIo.op = "read" /\ lastIo.res = "ok" /\ lastIo.n > 0
    /\ written_bytes > 0

(* C19: a read-only run leaves the device content unchanged: it does not   *)
(* prompt, does not open the device for writing and issues no write or     *)
(* sync call; a write-only run issues no device read.                      *)
C19_ModeFrame ==
    /\ [][read /\ ~write => dev' = dev]_vars
    /\ [](read /\ ~write
            => /\ response = <<>>
               /\ "confirm" \notin gates
               /\ err.kind \notin {"Declined", "StdinError"}
               /\ lastIo.op \notin {"create", "write", "sync"}
               /\ wpos = 0
               /\ ~synced
               /\ pc \notin {"write_open", "w_loop", "w_write", "w_sync",
                             "w_ret"})
    /\ [](write /\ ~read
            => /\ lastIo.op \notin {"open", "read"}
               /\ rpos = 0
               /\ pc \notin {"read_open", "r_loop", "r_read", "r_ret"})

\* A read-only run has verified a device that is not empty.
C19_Witness ==
    /\ read /\ ~write
    /\ pc = "done"
    /\ Len(dev) > 1
    /\ read_bytes = Len(dev)

\* Variant of the loops of write_device: it decreases with every step of
\* the engine and is at most 3 * N + 2 for a device of N bytes.
WriteRank ==
    CASE pc = "w_loop" -> 3 * (Len(dev) - wpos) + 2
      [] pc = "w_write" -> 3 * (Len(dev) - wpos) + 1
      [] pc = "w_sync" -> 0
      [] OTHER -> -1

====
